---- MODULE Spec2Model ----
(***************************************************************************)
(* A model of the intrusive AVL tree of avltree.h: the node linkage        *)
(* (parent/left/right/height), the four rotations, the rebalance driver,   *)
(* search, insertion and swap-based deletion.  Memory is modelled as four  *)
(* functions over node identities; every C statement that writes a field   *)
(* is one functional update, applied in the order of the source so that    *)
(* aliasing between pointers behaves as it does in the program.  The build *)
(* modelled keeps assert() active (the source never defines NDEBUG): a     *)
(* failed assertion, a NULL dereference or a recursion that cannot end     *)
(* stops the process, which the model records in 'halted'.                 *)
(***************************************************************************)
EXTENDS Integers, Sequences, FiniteSets, TLC

\* ---- bounds of the model ----
NumKeys == 5
MaxOps == 6
\* the longer runs of SpecDeep
MaxOpsDeep == 7

NULL == 0
\* one record per key, and one more record that repeats the key DupKey
Nodes == 1..(NumKeys + 1)
Ptr == Nodes \cup {NULL}

\* the key carried by the caller's record
DupKey == (NumKeys + 1) \div 2
Key(n) == IF n <= NumKeys THEN n ELSE DupKey

\* recursion deeper than the number of nodes revisits a node: it never ends
Fuel == NumKeys + 2
WalkFuel == 3 * (NumKeys + 1) + 1

VARIABLES parent, left, right, height, root, members, ops, limit, halted, lastOp, pre,
          walk, phase

vars == <<parent, left, right, height, root, members, ops, limit, halted, lastOp, pre,
          walk, phase>>

avl_cmp(a, b) == IF Key(a) < Key(b) THEN -1 ELSE IF Key(a) > Key(b) THEN 1 ELSE 0

\* ---- memory ----
Mem == [parent |-> parent, left |-> left, right |-> right, height |-> height,
        root |-> root, ok |-> TRUE]

Fail(m) == [m EXCEPT !.ok = FALSE]
SetP(m, n, v) == IF ~m.ok \/ n = NULL THEN Fail(m) ELSE [m EXCEPT !.parent[n] = v]
SetL(m, n, v) == IF ~m.ok \/ n = NULL THEN Fail(m) ELSE [m EXCEPT !.left[n] = v]
SetR(m, n, v) == IF ~m.ok \/ n = NULL THEN Fail(m) ELSE [m EXCEPT !.right[n] = v]
SetH(m, n, v) == IF ~m.ok \/ n = NULL THEN Fail(m) ELSE [m EXCEPT !.height[n] = v]
SetRoot(m, v) == IF ~m.ok THEN m ELSE [m EXCEPT !.root = v]

\* an avl_node_t ** : the tree's root field or a child field of a node
RootSlot == [k |-> "root", n |-> NULL]
LeftSlot(p) == [k |-> "left", n |-> p]
RightSlot(p) == [k |-> "right", n |-> p]
Deref(m, slot) == IF slot.k = "root" THEN m.root
                  ELSE IF slot.k = "left" THEN m.left[slot.n] ELSE m.right[slot.n]
Store(m, slot, v) == IF slot.k = "root" THEN SetRoot(m, v)
                     ELSE IF slot.k = "left" THEN SetL(m, slot.n, v) ELSE SetR(m, slot.n, v)

\* C statements in sequence: each step gets the memory the step before left
Do2(m, A(_), B(_)) == B(A(m))
Do3(m, A(_), B(_), C(_)) == C(B(A(m)))
Do6(m, A(_), B(_), C(_), D(_), E(_), F(_)) == F(E(D(C(B(A(m))))))

\* ---- rotations ----
avl_rotate_rr(m, slot, node) ==
    IF ~m.ok THEN m
    ELSE IF m.right[node] = NULL \/ Deref(m, slot) # node THEN Fail(m)
    ELSE LET r == m.right[node] IN
         Do6(m, LAMBDA x : SetR(x, node, x.left[r]),
                LAMBDA x : IF x.left[r] # NULL THEN SetP(x, x.left[r], node) ELSE x,
                LAMBDA x : SetP(x, r, x.parent[node]),
                LAMBDA x : SetL(x, r, node),
                LAMBDA x : SetP(x, node, r),
                LAMBDA x : Store(x, slot, r))

avl_rotate_ll(m, slot, node) ==
    IF ~m.ok THEN m
    ELSE IF m.left[node] = NULL \/ Deref(m, slot) # node THEN Fail(m)
    ELSE LET l == m.left[node] IN
         Do6(m, LAMBDA x : SetL(x, node, x.right[l]),
                LAMBDA x : IF x.right[l] # NULL THEN SetP(x, x.right[l], node) ELSE x,
                LAMBDA x : SetP(x, l, x.parent[node]),
                LAMBDA x : SetR(x, l, node),
                LAMBDA x : SetP(x, node, l),
                LAMBDA x : Store(x, slot, l))

avl_rotate_lr(m, slot, node) ==
    IF ~m.ok THEN m
    ELSE IF m.left[node] = NULL THEN Fail(m)
    ELSE IF m.right[m.left[node]] = NULL \/ Deref(m, slot) # node THEN Fail(m)
    ELSE Do2(m, LAMBDA x : avl_rotate_rr(x, LeftSlot(node), x.left[node]),
                LAMBDA x : avl_rotate_ll(x, slot, node))

avl_rotate_rl(m, slot, node) ==
    IF ~m.ok THEN m
    ELSE IF m.right[node] = NULL THEN Fail(m)
    ELSE IF m.left[m.right[node]] = NULL \/ Deref(m, slot) # node THEN Fail(m)
    ELSE Do2(m, LAMBDA x : avl_rotate_ll(x, RightSlot(node), x.right[node]),
                LAMBDA x : avl_rotate_rr(x, slot, node))

\* ---- height and balance ----
avl_get_balance(m, node) ==
    (IF m.left[node] # NULL THEN m.height[m.left[node]] ELSE 0)
    - (IF m.right[node] # NULL THEN m.height[m.right[node]] ELSE 0)

avl_is_balanced(m, node) ==
    ~(avl_get_balance(m, node) < -1 \/ avl_get_balance(m, node) > 1)

RECURSIVE avl_set_height(_, _, _)
avl_set_height(m, node, fuel) ==
    IF ~m.ok THEN m
    ELSE IF node = NULL \/ fuel = 0 THEN Fail(m)
    ELSE Do3(m,
        LAMBDA x : SetH(x, node, 1),
        LAMBDA x : IF x.left[node] # NULL
                   THEN Do2(x, LAMBDA y : avl_set_height(y, y.left[node], fuel - 1),
                               LAMBDA y : SetH(y, node, y.height[y.left[node]] + 1))
                   ELSE x,
        LAMBDA x : IF x.ok /\ x.right[node] # NULL
                   THEN Do2(x, LAMBDA y : avl_set_height(y, y.right[node], fuel - 1),
                               LAMBDA y : IF y.ok /\ y.height[y.right[node]] >= y.height[node]
                                          THEN SetH(y, node, y.height[y.right[node]] + 1)
                                          ELSE y)
                   ELSE x)

\* ---- rebalance driver: the memory after, the value returned, the case taken ----
BalSlot(m, node) ==
    IF m.parent[node] # NULL
    THEN IF m.right[m.parent[node]] = node THEN RightSlot(m.parent[node])
         ELSE LeftSlot(m.parent[node])
    ELSE RootSlot

\* the case the driver takes at an unbalanced node
BalKind(m, node) ==
    IF avl_get_balance(m, node) > 0
    THEN IF m.left[node] = NULL THEN "abort"
         ELSE IF avl_get_balance(m, m.left[node]) > 0 THEN "LL"
         ELSE IF avl_get_balance(m, m.left[node]) < 0 THEN "LR"
         ELSE "LLtied"
    ELSE IF avl_get_balance(m, node) < 0
    THEN IF m.right[node] = NULL THEN "abort"
         ELSE IF avl_get_balance(m, m.right[node]) < 0 THEN "RR"
         ELSE IF avl_get_balance(m, m.right[node]) > 0 THEN "RL"
         ELSE "RRtied"
    ELSE "none"

\* the rotation of that case at the node's slot, then the heights of the whole tree
BalApply(m, node, kind) ==
    Do2(m, LAMBDA x :
               IF (x.parent[node] = NULL /\ x.root # node) \/ kind = "abort" THEN Fail(x)
               ELSE IF kind \in {"LL", "LLtied"} THEN avl_rotate_ll(x, BalSlot(x, node), node)
               ELSE IF kind = "LR" THEN avl_rotate_lr(x, BalSlot(x, node), node)
               ELSE IF kind \in {"RR", "RRtied"} THEN avl_rotate_rr(x, BalSlot(x, node), node)
               ELSE IF kind = "RL" THEN avl_rotate_rl(x, BalSlot(x, node), node)
               ELSE x,
           LAMBDA x : avl_set_height(x, x.root, Fuel))

Tied == {"LLtied", "RRtied"}

\* the driver with its return value the other way round: FALSE unless the child is tied
avl_do_balancing_flipped(m, node) ==
    [m |-> BalApply(m, node, BalKind(m, node)), ret |-> (BalKind(m, node) \in Tied),
     kind |-> BalKind(m, node)]

avl_do_balancing(m, node) ==
    [m |-> BalApply(m, node, BalKind(m, node)), ret |-> (BalKind(m, node) \notin Tied),
     kind |-> BalKind(m, node)]

\* ---- search ----
RECURSIVE avl_get_max_node(_, _, _)
avl_get_max_node(m, node, fuel) ==
    IF node = NULL THEN NULL
    ELSE IF fuel = 0 THEN -1
    ELSE IF m.right[node] = NULL THEN node
    ELSE avl_get_max_node(m, m.right[node], fuel - 1)

RECURSIVE __avl_find(_, _, _, _)
__avl_find(m, rt, node, fuel) ==
    IF rt = NULL THEN NULL
    ELSE IF fuel = 0 THEN -1
    ELSE IF avl_cmp(node, rt) > 0 THEN __avl_find(m, m.right[rt], node, fuel - 1)
    ELSE IF avl_cmp(node, rt) < 0 THEN __avl_find(m, m.left[rt], node, fuel - 1)
    ELSE rt

avl_find(m, node) == __avl_find(m, m.root, node, Fuel)

\* ---- insertion ----
\* what a call of __avl_add hands back once the call below it has returned s:
\* the memory after, the pointer returned, whether the node was linked at an
\* empty place, and the branches taken on the way down
add_left(s, rt) ==
    [m |-> SetL(s.m, rt, s.ret), ret |-> rt, linked |-> s.linked, path |-> <<"L">> \o s.path]
add_right(s, rt) ==
    [m |-> SetR(s.m, rt, s.ret), ret |-> s.ret, linked |-> s.linked, path |-> <<"R">> \o s.path]

RECURSIVE __avl_add(_, _, _, _, _)
__avl_add(m, rt, root_parent, node, fuel) ==
    IF fuel = 0 THEN [m |-> Fail(m), ret |-> NULL, linked |-> FALSE, path |-> <<>>]
    ELSE IF rt = NULL
    THEN [m |-> SetP(m, node, root_parent), ret |-> node, linked |-> TRUE, path |-> <<>>]
    ELSE IF avl_cmp(node, rt) < 0
    THEN add_left(__avl_add(m, m.left[rt], rt, node, fuel - 1), rt)
    ELSE IF avl_cmp(node, rt) > 0
    THEN add_right(__avl_add(m, m.right[rt], rt, node, fuel - 1), rt)
    ELSE [m |-> m, ret |-> rt, linked |-> FALSE, path |-> <<>>]

\* the upward pass of avl_add: rotate at the first unbalanced node, then stop
RECURSIVE add_rebalance(_, _, _)
add_rebalance(m, node, fuel) ==
    IF ~m.ok THEN [m |-> m, rots |-> 0]
    ELSE IF node = NULL THEN [m |-> m, rots |-> 0]
    ELSE IF fuel = 0 THEN [m |-> Fail(m), rots |-> 0]
    ELSE IF ~avl_is_balanced(m, node)
    THEN [m |-> avl_do_balancing(m, node).m, rots |-> 1]
    ELSE add_rebalance(m, m.parent[node], fuel - 1)

add_report(s, b) == [m |-> b.m, linked |-> s.linked, path |-> s.path, rots |-> b.rots]

\* avl_add once __avl_add has returned s
add_finish(s, node) ==
    add_report(s, add_rebalance(Do2(s.m, LAMBDA x : SetRoot(x, s.ret),
                                         LAMBDA x : avl_set_height(x, x.root, Fuel)),
                                node, Fuel))

avl_add(m, node) == add_finish(__avl_add(m, m.root, NULL, node, Fuel), node)

\* ---- deletion ----
\* the patching of one of the two exchanged nodes (and, with a and b the
\* other way round, of the other)
swap_patch(m, a, b) ==
    IF ~m.ok THEN m
    ELSE Do3(m,
        LAMBDA x : IF x.parent[a] # NULL
                   THEN IF x.parent[a] = a THEN SetP(x, a, b)
                        ELSE IF x.left[x.parent[a]] = b THEN SetL(x, x.parent[a], a)
                        ELSE IF x.right[x.parent[a]] = b THEN SetR(x, x.parent[a], a)
                        ELSE Fail(x)
                   ELSE IF x.root # b THEN Fail(x) ELSE SetRoot(x, a),
        LAMBDA x : IF x.ok /\ x.left[a] # NULL
                   THEN Do2(x, LAMBDA y : IF y.left[a] = a THEN SetL(y, a, b) ELSE y,
                               LAMBDA y : SetP(y, y.left[a], a))
                   ELSE x,
        LAMBDA x : IF x.ok /\ x.right[a] # NULL
                   THEN Do2(x, LAMBDA y : IF y.right[a] = a THEN SetR(y, a, b) ELSE y,
                               LAMBDA y : SetP(y, y.right[a], a))
                   ELSE x)

avl_swap_nodes(m, node1, node2) ==
    IF ~m.ok THEN m
    ELSE IF node1 = NULL \/ node2 = NULL THEN Fail(m)
    ELSE IF node1 = node2 THEN m
    ELSE Do3(m,
        LAMBDA x : [x EXCEPT
            !.parent[node1] = x.parent[node2], !.parent[node2] = x.parent[node1],
            !.left[node1] = x.left[node2], !.left[node2] = x.left[node1],
            !.right[node1] = x.right[node2], !.right[node2] = x.right[node1],
            !.height[node1] = x.height[node2], !.height[node2] = x.height[node1]],
        LAMBDA x : swap_patch(x, node1, node2),
        LAMBDA x : swap_patch(x, node2, node1))

\* the upward pass of avl_del: the memory after, the nodes visited with the
\* case the driver took at each, and how the loop was left
RECURSIVE del_rebalance(_, _, _, _)

\* the loop body once the driver has returned b at an unbalanced node
del_after(b, node, log, fuel) ==
    IF ~b.m.ok THEN [m |-> b.m, log |-> log, end |-> "halt"]
    ELSE IF ~b.ret THEN [m |-> b.m, log |-> log, end |-> "break"]
    ELSE IF b.m.parent[node] = NULL THEN [m |-> Fail(b.m), log |-> log, end |-> "halt"]
    ELSE del_rebalance(b.m, b.m.parent[b.m.parent[node]], log, fuel - 1)

del_rebalance(m, node, log, fuel) ==
    IF ~m.ok THEN [m |-> m, log |-> log, end |-> "halt"]
    ELSE IF node = NULL THEN [m |-> m, log |-> log, end |-> "top"]
    ELSE IF fuel = 0 THEN [m |-> Fail(m), log |-> log, end |-> "fuel"]
    ELSE IF ~avl_is_balanced(m, node)
    THEN del_after(avl_do_balancing(m, node), node,
                   Append(log, [node |-> node, kind |-> BalKind(m, node)]), fuel)
    ELSE del_rebalance(m, m.parent[node], Append(log, [node |-> node, kind |-> "none"]),
                       fuel - 1)

\* a node with two children changes places with the maximum of its left subtree
del_swap(m, node) ==
    IF m.left[node] # NULL /\ m.right[node] # NULL
    THEN IF avl_get_max_node(m, m.left[node], Fuel) = -1 THEN Fail(m)
         ELSE avl_swap_nodes(m, node, avl_get_max_node(m, m.left[node], Fuel))
    ELSE m

\* the slot chosen with the test on the parent's left field inverted
del_slot_inverted(m, node) ==
    IF m.parent[node] # NULL
    THEN IF m.left[m.parent[node]] = node THEN RightSlot(m.parent[node])
         ELSE LeftSlot(m.parent[node])
    ELSE RootSlot

\* the slot that holds the node to delete
del_slot(m, node) ==
    IF m.parent[node] # NULL
    THEN IF m.left[m.parent[node]] = node THEN LeftSlot(m.parent[node])
         ELSE RightSlot(m.parent[node])
    ELSE RootSlot

\* the node's only child, or NULL, spliced into that slot
del_unlink(m, node) ==
    IF ~m.ok THEN m
    ELSE IF m.left[node] # NULL /\ m.right[node] # NULL THEN Fail(m)
    ELSE Do2(m,
        LAMBDA x : Store(x, del_slot(m, node),
                         IF x.left[node] # NULL THEN x.left[node] ELSE x.right[node]),
        LAMBDA x : IF x.ok /\ Deref(x, del_slot(m, node)) # NULL
                   THEN SetP(x, Deref(x, del_slot(m, node)), x.parent[node]) ELSE x)

del_report(w, two) == [m |-> w.m, log |-> w.log, end |-> w.end, two |-> two]

\* the heights and the upward pass, when the deleted node had a parent
del_walk(m, node, two) ==
    IF m.ok /\ m.parent[node] # NULL
    THEN del_report(Do2(m, LAMBDA x : avl_set_height(x, x.root, Fuel),
                           LAMBDA x : IF x.ok
                                      THEN del_rebalance(x, x.parent[node], <<>>, WalkFuel)
                                      ELSE [m |-> x, log |-> <<>>, end |-> "halt"]),
                    two)
    ELSE [m |-> m, log |-> <<>>, end |-> IF m.ok THEN "nowalk" ELSE "halt", two |-> two]

avl_del(m, node) ==
    del_walk(del_unlink(del_swap(m, node), node), node,
             m.left[node] # NULL /\ m.right[node] # NULL)

\* ---- observation helpers ----
Kids(x) == {left[x], right[x]} \ {NULL}
RECURSIVE ReachFrom(_, _)
ReachFrom(S, k) ==
    IF k = 0 THEN S
    ELSE LET T == S \cup UNION {Kids(x) : x \in S}
         IN IF T = S THEN S ELSE ReachFrom(T, k - 1)
\* the nodes reachable from the root field through left/right links
Reach == IF root = NULL THEN {} ELSE ReachFrom({root}, Fuel)

KidsM(m, x) == {m.left[x], m.right[x]} \ {NULL}
RECURSIVE ReachFromM(_, _, _)
ReachFromM(m, S, k) ==
    IF k = 0 THEN S
    ELSE LET T == S \cup UNION {KidsM(m, x) : x \in S}
         IN IF T = S THEN S ELSE ReachFromM(m, T, k - 1)
ReachM(m) == IF m.root = NULL THEN {} ELSE ReachFromM(m, {m.root}, Fuel)

NoOp == [kind |-> "none", node |-> NULL, dup |-> FALSE, linked |-> FALSE, path |-> <<>>,
         rots |-> 0, res |-> NULL, two |-> FALSE, end |-> "none", undo |-> FALSE,
         stale |-> FALSE, crash |-> FALSE, same |-> TRUE]
NoPre == [root |-> NULL, parent |-> [n \in Nodes |-> NULL], left |-> [n \in Nodes |-> NULL],
          right |-> [n \in Nodes |-> NULL], height |-> [n \in Nodes |-> 0], reach |-> {},
          rots |-> 0, path |-> <<>>, stale |-> FALSE, dup |-> FALSE]

\* ---- the state machine ----
Empty ==
    /\ parent = [n \in Nodes |-> NULL]
    /\ left = [n \in Nodes |-> NULL]
    /\ right = [n \in Nodes |-> NULL]
    /\ height = [n \in Nodes |-> 0]
    /\ root = NULL
    /\ members = {}
    /\ ops = 0
    /\ halted = FALSE
    /\ lastOp = NoOp
    /\ pre = NoPre
    /\ walk = <<>>
    /\ phase = "adds"

Init == Empty /\ limit = MaxOps
InitDeep == Empty /\ limit = MaxOpsDeep

\* the memory with node n as a caller that cleared it would pass it
MemZero(n) == [Mem EXCEPT !.parent[n] = NULL, !.left[n] = NULL, !.right[n] = NULL,
                          !.height[n] = 0]

Commit(m) ==
    /\ parent' = m.parent
    /\ left' = m.left
    /\ right' = m.right
    /\ height' = m.height
    /\ root' = m.root

\* whether the Add that gave r comes out as the Add of the same node cleared, r0
SameOutcome(r, r0) ==
    /\ r.m.ok = r0.m.ok
    /\ r.m.ok => (r.m.root = r0.m.root /\ ReachM(r.m) = ReachM(r0.m))

AddEffect(n, r, stale, dup, same) ==
    /\ ops' = ops + 1
    /\ limit' = limit
    /\ walk' = <<>>
    /\ phase' = IF phase = "adds" /\ ~stale /\ parent[n] = NULL
                    /\ \A x \in members : Key(x) # Key(n)
                 THEN "adds" ELSE "mixed"
    /\ IF r.m.ok
       THEN /\ Commit(r.m)
            /\ halted' = FALSE
            /\ members' = IF r.linked THEN members \cup {n} ELSE members
            /\ lastOp' = [NoOp EXCEPT !.kind = "add", !.node = n, !.dup = dup,
                                      !.linked = r.linked, !.path = r.path,
                                      !.rots = r.rots, !.stale = stale, !.same = same]
            /\ pre' = [root |-> root, parent |-> parent, left |-> left, right |-> right,
                       height |-> height, reach |-> Reach, rots |-> r.rots,
                       path |-> r.path, stale |-> stale, dup |-> dup]
       ELSE /\ halted' = TRUE
            /\ lastOp' = [NoOp EXCEPT !.kind = "add", !.node = n, !.dup = dup,
                                      !.stale = stale, !.crash = TRUE, !.same = same]
            /\ UNCHANGED <<parent, left, right, height, root, members, pre>>

\* Add(tree, n) for a node the caller holds detached, with the field values
\* the node has at that moment (zero when fresh, left-over after a Delete)
Add(n) ==
    /\ ~halted /\ ops < limit
    /\ n \notin members
    /\ AddEffect(n, avl_add(Mem, n),
                 left[n] # NULL \/ right[n] # NULL,
                 \E x \in Reach : Key(x) = Key(n),
                 MemZero(n) = Mem \/ SameOutcome(avl_add(Mem, n), avl_add(MemZero(n), n)))

DeleteEffect(n, r, undo) ==
    /\ ops' = ops + 1
    /\ limit' = limit
    /\ pre' = IF undo THEN pre ELSE NoPre
    /\ phase' = IF phase = "mixed" THEN "mixed" ELSE "dels"
    /\ IF r.m.ok
       THEN /\ Commit(r.m)
            /\ halted' = FALSE
            /\ members' = members \ {n}
            /\ walk' = r.log
            /\ lastOp' = [NoOp EXCEPT !.kind = "del", !.node = n, !.two = r.two,
                                      !.end = r.end, !.undo = undo,
                                      !.rots = Cardinality({i \in 1..Len(r.log) :
                                                  r.log[i].kind # "none"})]
       ELSE /\ halted' = TRUE
            /\ walk' = <<>>
            /\ lastOp' = [NoOp EXCEPT !.kind = "del", !.node = n, !.crash = TRUE,
                                      !.end = r.end]
            /\ UNCHANGED <<parent, left, right, height, root, members>>

\* Delete(tree, n) for a node that is a member of the tree
Delete(n) ==
    /\ ~halted /\ ops < limit
    /\ n \in members /\ n \in Reach
    /\ DeleteEffect(n, avl_del(Mem, n),
                    lastOp.kind = "add" /\ lastOp.node = n /\ lastOp.linked)

\* Find(tree, k) with a probe record carrying the key of node k
Find(k) ==
    /\ ~halted
    /\ lastOp.kind # "find"
    /\ halted' = (avl_find(Mem, k) = -1)
    /\ lastOp' = IF avl_find(Mem, k) = -1
                 THEN [NoOp EXCEPT !.kind = "find", !.node = k, !.crash = TRUE]
                 ELSE [NoOp EXCEPT !.kind = "find", !.node = k, !.res = avl_find(Mem, k)]
    /\ UNCHANGED <<parent, left, right, height, root, members, ops, limit, pre, walk, phase>>

Next ==
    \/ \E n \in Nodes : Add(n)
    \/ \E n \in Nodes : Delete(n)

Spec == Init /\ [][Next]_vars

\* the same program with lookups between the mutations
NextFind ==
    \/ Next
    \/ \E k \in Nodes : Find(k)

SpecFind == Init /\ [][NextFind]_vars

\* the same program, Add and Delete only, over runs one operation longer
SpecDeep == InitDeep /\ [][Next]_vars

TypeOK ==
    /\ parent \in [Nodes -> Ptr] /\ left \in [Nodes -> Ptr] /\ right \in [Nodes -> Ptr]
    /\ root \in Ptr /\ members \subseteq Nodes /\ ops \in 0..limit

\* ---- observations used by the properties ----
RECURSIVE ActualHeight(_, _)
ActualHeight(x, fuel) ==
    IF x = NULL \/ fuel = 0 THEN 0
    ELSE LET lh == ActualHeight(left[x], fuel - 1)
             rh == ActualHeight(right[x], fuel - 1)
         IN 1 + (IF lh > rh THEN lh ELSE rh)
Subtree(x) == IF x = NULL THEN {} ELSE ReachFrom({x}, Fuel)

\* ---- properties ----
Done(k) == lastOp.kind = k /\ ~lastOp.crash
Balance(x) == ActualHeight(left[x], Fuel) - ActualHeight(right[x], Fuel)

\* C1: after N Adds of fresh nodes with pairwise distinct keys followed by D
\* Deletes of members, the nodes reachable from the root are exactly the
\* inserted and not deleted ones, N-D of them.
C1_CountInvariant ==
    (~halted /\ phase \in {"adds", "dels"}) =>
        /\ Reach = members
        /\ Cardinality(Reach) = Cardinality(members)

\* C2: after any sequence of Add and Delete every reachable node has a balance
\* factor (actual left height minus actual right height) in {-1, 0, 1}.
C2_BalanceInvariant ==
    ~halted => \A x \in Reach : Balance(x) \in {-1, 0, 1}

\* C3: after any sequence of Add and Delete, for every reachable node every key
\* in its left subtree is strictly less and every key in its right subtree is
\* strictly greater.
C3_OrderingInvariant ==
    ~halted => \A x \in Reach :
        /\ \A y \in Subtree(left[x]) : Key(y) < Key(x)
        /\ \A y \in Subtree(right[x]) : Key(y) > Key(x)

\* C4: Find returns a reachable node with an equal key whenever one is
\* reachable, NULL otherwise, and it returns the node for every key inserted
\* and not since deleted.
C4_FindCorrect ==
    Done("find") =>
        /\ (\E x \in Reach : Key(x) = Key(lastOp.node))
              => (lastOp.res \in Reach /\ Key(lastOp.res) = Key(lastOp.node))
        /\ (~\E x \in Reach : Key(x) = Key(lastOp.node)) => lastOp.res = NULL
        /\ (\E x \in members : Key(x) = Key(lastOp.node))
              => (lastOp.res # NULL /\ Key(lastOp.res) = Key(lastOp.node))

\* C5: Add of a node whose key equals the key of a reachable node is a no-op:
\* the root, the fields of every node reachable before, and the number of
\* reachable nodes are unchanged and the new node is not reachable.
C5_DuplicateAddNoOp ==
    (Done("add") /\ lastOp.dup /\ lastOp.node \notin pre.reach) =>
        /\ root = pre.root
        /\ \A x \in pre.reach :
              /\ parent[x] = pre.parent[x] /\ left[x] = pre.left[x]
              /\ right[x] = pre.right[x] /\ height[x] = pre.height[x]
        /\ Cardinality(Reach) = Cardinality(pre.reach)
        /\ lastOp.node \notin Reach

\* C6: after Delete of a member the node is not reachable from the root and
\* the root field does not refer to it.
C6_DeletedUnreachable ==
    Done("del") => (lastOp.node \notin Reach /\ root # lastOp.node)

\* the state before the last Add, compared with the present one
SameAsBeforeAdd(n) ==
    /\ root = pre.root
    /\ Reach = pre.reach
    /\ \A x \in Nodes \ {n} :
          /\ parent[x] = pre.parent[x] /\ left[x] = pre.left[x]
          /\ right[x] = pre.right[x] /\ height[x] = pre.height[x]

C8_ReuseIndependent ==
    (lastOp.kind = "add" /\ lastOp.stale /\ ~lastOp.dup) =>
        /\ lastOp.same
        /\ ~lastOp.crash => Reach \subseteq (pre.reach \cup {lastOp.node})

\* C9: after every completed Add or Delete the root has no parent and every
\* child of a reachable node points back to it.
C9_ParentLinks ==
    ~halted =>
        /\ root # NULL => parent[root] = NULL
        /\ \A x \in Reach : \A c \in Kids(x) : parent[c] = x

Rotations == {"LL", "LR", "RR", "RL"} \cup Tied
LastOfWalk(i) == i = Len(walk)

\* C10 as stated: in Delete's upward walk a rotation in the tied case is
\* followed by more of the walk, and a rotation in any other case ends it.
C10_TiedContinues ==
    Done("del") => \A i \in 1..Len(walk) :
        /\ walk[i].kind \in Tied => ~(LastOfWalk(i) /\ lastOp.end = "break")
        /\ walk[i].kind \in Rotations \ Tied => (LastOfWalk(i) /\ lastOp.end = "break")

\* C10 amended: in Delete's upward walk a rotation in the tied case ends the
\* walk at that level, a rotation in any other case is followed by the walk
\* going on above the rotated subtree, and the walk ends only at the top or
\* right after a tied rotation.
C10_TiedStops ==
    Done("del") =>
        /\ \A i \in 1..Len(walk) :
              /\ walk[i].kind \in Tied => (LastOfWalk(i) /\ lastOp.end = "break")
              /\ walk[i].kind \in Rotations \ Tied => ~(LastOfWalk(i) /\ lastOp.end = "break")
        /\ lastOp.end \in {"top", "break", "nowalk"}
        /\ lastOp.end = "break" => (Len(walk) > 0 /\ walk[Len(walk)].kind \in Tied)
        /\ lastOp.end = "nowalk" => walk = <<>>

C10_Witness ==
    /\ Done("del") /\ lastOp.end = "break"
    /\ Len(walk) > 0 /\ walk[Len(walk)].kind \in Tied
    /\ Reach = members

\* a rotation outside the tied case after which the walk went on
C10_WitnessContinue ==
    /\ Done("del") /\ lastOp.end = "top"
    /\ \E i \in 1..Len(walk) : walk[i].kind \in Rotations \ Tied

====
